---- MODULE Spec2Model ----
(***************************************************************************)
(* LatControlTorque (selfdrive/controls/lib/latcontrol_torque.py): the     *)
(* per-cycle lateral torque control law with its live-tuning loader.       *)
(*                                                                         *)
(* Fixed point.  Python floats are modelled as integers:                   *)
(*   torque, lateral acceleration, error : One units per 1.0               *)
(*   speed (vEgo)                        : 0.1 m/s                         *)
(*   curvature                           : 1/CurvPerUnit 1/m               *)
(*   yaw rate, roll                      : 0.001 rad/s, 0.001 rad          *)
(*   controller gains                    : 0.001                           *)
(*   low_speed_factor                    : 1/3                             *)
(*   stored TorqueMaxLatAccel            : the stored integer (x 0.1)      *)
(*   stored TorqueFriction               : the stored integer (x 0.01)     *)
(* The units are chosen so that the products of update() on the inputs of  *)
(* the model are whole numbers.                                            *)
(***************************************************************************)
EXTENDS Integers, FiniteSets, Sequences, TLC

VARIABLES
  self,   \* the LatControlTorque instance: its fields, self.pid included
  ret,    \* what the last call returned: (torque, angle, pid_log), or that it raised
  cyc,    \* trace of the last call: its inputs and the intermediate values of update()
  cycles, \* number of update() calls since construction
  accum,  \* number of cycles that accumulated into the present controller's integral
  replaced_at, \* the cycles in which live_tune replaced the controller, in order
  twin    \* a second instance, constructed alike, with its own accum

vars == <<self, ret, cyc, cycles, accum, replaced_at, twin>>

----------------------------------------------------------------------------
(* Bounds of the model *)

\* update() calls explored from construction: two live-tune applications (400, 700)
MaxCycles == 700
\* update() calls explored under SpecCtl and SpecFault: one live-tune application (400)
MaxShortCycles == 401
\* cycles that may accumulate a non-zero error into one controller's integral
MaxAccum == 1

----------------------------------------------------------------------------
(* Fixed-point units *)

One == 48 * 1000
GainOne == 10 * 100
CurvPerUnit == 4 * 1000

Abs(x) == IF x < 0 THEN -x ELSE x

\* common.numpy_fast.clip
Clip(x, lo, hi) == IF x < lo THEN lo ELSE IF x > hi THEN hi ELSE x

\* common.numpy_fast.interp on two breakpoints: linear between, constant beyond
Interp(x, x0, x1, y0, y1) ==
  IF x <= x0 THEN y0
  ELSE IF x >= x1 THEN y1
  ELSE y0 + ((x - x0) * (y1 - y0)) \div (x1 - x0)

----------------------------------------------------------------------------
(* Program constants *)

\* selfdrive.controls.lib.latcontrol.MIN_STEER_SPEED = 0.3 m/s
MIN_STEER_SPEED == 3
\* FRICTION_THRESHOLD = 0.2
FRICTION_THRESHOLD == One \div 5
\* self.steer_max = 1.0
STEER_MAX == One
\* the 1e-3 of the saturation test
SAT_TOLERANCE == One \div 1000
\* ACCELERATION_DUE_TO_GRAVITY = 9.81, in 0.01 m/s^2
ACCELERATION_DUE_TO_GRAVITY == 981
\* the controller's rate: cycle_period = 1 / PID_RATE
PID_RATE == 100

----------------------------------------------------------------------------
(* Closed-Loop Controller (PIDController) *)

\* PIDController(k_p, k_i, k_f=..., pos_limit=..., neg_limit=...)
NewPID(kp, ki, kf, pos, neg) ==
  [k_p |-> kp, k_i |-> ki, k_f |-> kf, pos_limit |-> pos, neg_limit |-> neg,
   i |-> 0, p |-> 0, d |-> 0, f |-> 0]

\* a reset that rebuilds the controller, its gains zeroed with its terms
PIDResetGains(pid) == NewPID(0, 0, 0, pid.pos_limit, pid.neg_limit)

\* PIDController.reset
PIDReset(pid) == [pid EXCEPT !.i = 0, !.p = 0, !.d = 0, !.f = 0]

\* PIDController.update(error, feedforward=, speed=, freeze_integrator=): the
\* controller after the call; its output is PIDControl of it
PIDUpdate(pid, error, feedforward, freeze_integrator) ==
  LET p == (pid.k_p * error) \div GainOne
      f == (pid.k_f * feedforward) \div GainOne
      i == IF freeze_integrator THEN pid.i
           ELSE Clip(pid.i + (pid.k_i * error) \div (GainOne * PID_RATE),
                     pid.neg_limit - (p + f), pid.pos_limit - (p + f))
  IN [pid EXCEPT !.p = p, !.f = f, !.d = 0, !.i = i]

PIDControl(pid) == Clip(pid.p + pid.i + pid.f, pid.neg_limit, pid.pos_limit)

----------------------------------------------------------------------------
(* Values read from the configuration store (common.params.Params) *)

\* a stored numeric string: ok is FALSE when the key is missing or its text is
\* no number (Decimal(...) raises), v is the stored integer otherwise
Num(v) == [ok |-> TRUE, v |-> v]
BadNum == [ok |-> FALSE, v |-> 0]

\* the three stored tuning values, as one application reads them
Tuning(mla, usa, fr) ==
  [TorqueMaxLatAccel |-> mla, TorqueUseSteeringAngle |-> usa, TorqueFriction |-> fr]

NoTuning == Tuning(BadNum, FALSE, BadNum)

----------------------------------------------------------------------------
(* LatControlTorque *)

\* CP.lateralTuning.torque of the car the instance is built for
CP == [kp |-> 1000, ki |-> 250, kf |-> 500, friction |-> One \div 100,
       useSteeringAngle |-> TRUE]

\* LatControlTorque.__init__
NewLatControlTorque ==
  [pid |-> NewPID(CP.kp, CP.ki, CP.kf, STEER_MAX, -STEER_MAX),
   steer_max |-> STEER_MAX,
   use_steering_angle |-> CP.useSteeringAngle,
   friction |-> CP.friction,
   mpc_frame |-> 0,
   custom_tune |-> FALSE,
   custom_tune_timer |-> 0,
   \* _torque_max_lat_accel, _torque_use_steering_angle, _torque_friction:
   \* torque_attrs of them exist (0, 1, 2 or 3, in the order live_tune assigns them)
   torque_attrs |-> 0,
   torque_max_lat_accel |-> 0,
   torque_use_steering_angle |-> FALSE,
   torque_friction |-> 0]

\* the poll one count later
PollDueLate(timer) == timer > 101

\* update(): if self.custom_tune_timer > 100
PollDue(timer) == timer > 100

\* update(): the toggle-poll of the custom-tuning flag; flag is what
\* params.get_bool("CustomLateralTune") returns if it is called
Poll(s, flag) ==
  LET t == s.custom_tune_timer + 1
  IN IF PollDue(t) THEN [s EXCEPT !.custom_tune_timer = 0, !.custom_tune = flag]
     ELSE [s EXCEPT !.custom_tune_timer = t]

\* the apply point on every 100th count
ApplyDueEarly(frame) == frame % 100 = 0

\* the apply point on every 150th count
ApplyDueHalf(frame) == frame % 150 = 0

\* live_tune(): if self.mpc_frame % 300 == 0
ApplyDue(frame) == frame % 300 = 0

\* live_tune(): float(Decimal(TorqueFriction) * Decimal('0.01'))
StoredFriction(v) == (v * One) \div 100

\* the gains with the integral gain taken from the feedforward's 0.5
TunedPIDMixed(m) ==
  NewPID((2 * GainOne * 10) \div m, (5 * GainOne) \div m, (5 * GainOne) \div m,
         One, -One)

\* live_tune(): the gains 2.0 / m, 1.0 / m, 0.5 / m for m = stored value * 0.1
TunedPID(m) ==
  NewPID((2 * GainOne * 10) \div m, (GainOne * 10) \div m, (5 * GainOne) \div m,
         One, -One)

\* the gains patched into the controller in place, its integral kept
RetuneController(s) ==
  [s EXCEPT !.pid.k_p = TunedPID(s.torque_max_lat_accel).k_p,
            !.pid.k_i = TunedPID(s.torque_max_lat_accel).k_i,
            !.pid.k_f = TunedPID(s.torque_max_lat_accel).k_f,
            !.pid.pos_limit = One, !.pid.neg_limit = -One,
            !.mpc_frame = 0]

\* live_tune(), lines 54-56: self.pid = PIDController(...); self.mpc_frame = 0
ReplaceController(s) ==
  [s EXCEPT !.pid = TunedPID(s.torque_max_lat_accel), !.mpc_frame = 0]

\* live_tune(CP): the instance after the call, whether it read the store, whether
\* it replaced the controller, and the exception it raised ("" for none):
\* Decimal(...) raises on a missing or malformed value (DecimalError stands for its
\* TypeError and InvalidOperation), 2.0 / 0.0 raises ZeroDivisionError; what was
\* assigned before the raise stays assigned
LiveTune(s, t) ==
  LET s0 == [s EXCEPT !.mpc_frame = s.mpc_frame + 1]
      \* line 49
      s1 == [s0 EXCEPT !.torque_max_lat_accel = t.TorqueMaxLatAccel.v,
                       !.torque_attrs = IF @ < 1 THEN 1 ELSE @]
      \* line 50
      s2 == [s1 EXCEPT !.torque_use_steering_angle = t.TorqueUseSteeringAngle,
                       !.torque_attrs = IF @ < 2 THEN 2 ELSE @]
      \* line 51
      s3 == [s2 EXCEPT !.torque_friction = StoredFriction(t.TorqueFriction.v),
                       !.torque_attrs = 3]
      \* lines 52-53
      s4 == [s3 EXCEPT !.use_steering_angle = s3.torque_use_steering_angle,
                       !.friction = s3.torque_friction]
      \* lines 54-56
      s5 == ReplaceController(s4)
  IN IF ~ApplyDue(s0.mpc_frame)
       THEN [s |-> s0, read |-> FALSE, replaced |-> FALSE, raised |-> ""]
     ELSE IF ~t.TorqueMaxLatAccel.ok
       THEN [s |-> s0, read |-> TRUE, replaced |-> FALSE, raised |-> "DecimalError"]
     ELSE IF ~t.TorqueFriction.ok
       THEN [s |-> s2, read |-> TRUE, replaced |-> FALSE, raised |-> "DecimalError"]
     ELSE IF s4.torque_max_lat_accel = 0
       THEN [s |-> s4, read |-> TRUE, replaced |-> FALSE, raised |-> "ZeroDivisionError"]
     ELSE [s |-> s5, read |-> TRUE, replaced |-> TRUE, raised |-> ""]

\* the loader restarting the apply counter while tuning is disabled
LoaderRestart(s, t) ==
  IF s.custom_tune THEN LiveTune(s, t)
  ELSE [s |-> [s EXCEPT !.mpc_frame = 0], read |-> FALSE, replaced |-> FALSE,
        raised |-> ""]

\* update(): if self.custom_tune: self.live_tune(CP)
Loader(s, t) ==
  IF s.custom_tune THEN LiveTune(s, t)
  ELSE [s |-> s, read |-> FALSE, replaced |-> FALSE, raised |-> ""]

----------------------------------------------------------------------------
(* update(): the control law, lines 66-107 *)

\* One / CurvPerUnit: lateral acceleration units of one curvature unit at 1 m/s
AccelPerCurv == One \div CurvPerUnit

\* curvature * CS.vEgo**2
LateralAccel(curvature, vEgo) == (curvature * vEgo * vEgo * AccelPerCurv) \div 100

\* the gate with "and" for "or"
GateBoth(inp) == inp.vEgo < MIN_STEER_SPEED /\ ~inp.active

\* the gate closed at MIN_STEER_SPEED itself
GateStrict(inp) == inp.vEgo <= MIN_STEER_SPEED \/ ~inp.active

\* if CS.vEgo < MIN_STEER_SPEED or not active
Gate(inp) == inp.vEgo < MIN_STEER_SPEED \/ ~inp.active

\* -VM.calc_curvature(...): vm_curvature is what the vehicle model returns
CurvatureVM(inp) == -inp.vm_curvature

\* llk.angularVelocityCalibrated.value[2] / CS.vEgo
CurvatureLLK(inp) == (inp.yaw_rate * 10 * CurvPerUnit) \div (1000 * inp.vEgo)

\* the blend taken whatever the use-steering-angle flag
ActualCurvatureBlended(use_steering_angle, inp) ==
  Interp(inp.vEgo, 20, 50, CurvatureVM(inp), CurvatureLLK(inp))

\* actual_curvature, lines 72-77
ActualCurvature(use_steering_angle, inp) ==
  IF use_steering_angle THEN CurvatureVM(inp)
  ELSE Interp(inp.vEgo, 20, 50, CurvatureVM(inp), CurvatureLLK(inp))

\* interp(CS.vEgo, [0, 15], [500, 0]), in thirds
LowSpeedFactor(vEgo) == Interp(vEgo, 0, 150, 3 * 500, 0)

\* lateral acceleration + low_speed_factor * curvature
WithLowSpeed(curvature, vEgo) ==
  LateralAccel(curvature, vEgo)
    + (LowSpeedFactor(vEgo) * curvature * AccelPerCurv) \div 3

\* error = setpoint - measurement
Error(desired_curvature, actual_curvature, vEgo) ==
  WithLowSpeed(desired_curvature, vEgo) - WithLowSpeed(actual_curvature, vEgo)

\* ff = desired_lateral_accel - params.roll * ACCELERATION_DUE_TO_GRAVITY
Feedforward(inp) ==
  LateralAccel(inp.desired_curvature, inp.vEgo)
    - (inp.roll * ACCELERATION_DUE_TO_GRAVITY * (One \div 1000)) \div 100

\* the freeze without its low-speed cause
FreezeIntegratorNoSpeed(inp) == inp.steeringRateLimited \/ inp.steeringPressed

\* the freeze on low speed alone
FreezeIntegratorLowSpeed(inp) == inp.vEgo < 50

\* freeze_integrator = CS.steeringRateLimited or CS.steeringPressed or CS.vEgo < 5
FreezeIntegrator(inp) ==
  inp.steeringRateLimited \/ inp.steeringPressed \/ inp.vEgo < 50

\* the bias as a step: the full coefficient at any error
FrictionCompensationStep(error, friction) ==
  IF error > 0 THEN friction ELSE IF error < 0 THEN -friction ELSE 0

\* interp(error, [-FRICTION_THRESHOLD, FRICTION_THRESHOLD], [-self.friction, self.friction])
FrictionCompensation(error, friction) ==
  Interp(error, -FRICTION_THRESHOLD, FRICTION_THRESHOLD, -friction, friction)

\* the saturation test without abs()
AtLimitSigned(steer_max, output_torque) == steer_max - output_torque < SAT_TOLERANCE

\* self.steer_max - abs(output_torque) < 1e-3
AtLimit(steer_max, output_torque) == steer_max - Abs(output_torque) < SAT_TOLERANCE

\* LatControl._check_saturation(saturated, CS): the flag the record carries
CheckSaturation(saturated, inp) == saturated

\* the torque handed out with the sign kept
ExternalSame(output_torque) == output_torque

\* -output_torque: left is positive in the external convention
External(output_torque) == -output_torque

\* log.ControlsState.LateralTorqueState.new_message()
NewPidLog ==
  [active |-> FALSE, error |-> 0, p |-> 0, i |-> 0, d |-> 0, f |-> 0,
   output |-> 0, saturated |-> FALSE]

\* the intermediate values of an Inactive cycle (none is computed)
NoControl ==
  [actual_curvature |-> 0, error |-> 0, ff |-> 0, freeze_integrator |-> FALSE,
   pid_output |-> 0, friction_compensation |-> 0, output_torque |-> 0]

\* an Inactive cycle run as a control cycle on a zero error under the freeze
ZeroErrorCycle(s, inp) ==
  [s |-> [s EXCEPT !.pid = PIDUpdate(s.pid, 0, 0, TRUE)],
   ret |-> [raised |-> "", torque |-> External(0), angle |-> 0,
            pid_log |-> [NewPidLog EXCEPT !.output = External(0)]],
   ctl |-> NoControl]

\* an Inactive cycle that restarts the apply counter
BypassRestart(s, inp) ==
  [s |-> [s EXCEPT !.mpc_frame = 0],
   ret |-> [raised |-> "", torque |-> External(0), angle |-> 0, pid_log |-> NewPidLog],
   ctl |-> NoControl]

\* lines 69-70 and 107: output_torque = 0.0, pid_log.active = False, nothing else
Bypass(s, inp) ==
  [s |-> s,
   ret |-> [raised |-> "", torque |-> External(0), angle |-> 0, pid_log |-> NewPidLog],
   ctl |-> NoControl]

\* update() from line 66 on, for the instance s the loader left: the instance
\* after it, the tuple returned and the intermediate values
Control(s, inp) ==
  IF Gate(inp) THEN Bypass(s, inp)
  ELSE
    LET actual_curvature == ActualCurvature(s.use_steering_angle, inp)
        error == Error(inp.desired_curvature, actual_curvature, inp.vEgo)
        ff == Feedforward(inp)
        freeze_integrator == FreezeIntegrator(inp)
        pid == PIDUpdate(s.pid, error, ff, freeze_integrator)
        friction_compensation == FrictionCompensation(error, s.friction)
        output_torque == PIDControl(pid) + friction_compensation
        pid_log == [active |-> TRUE, error |-> error,
                    p |-> pid.p, i |-> pid.i, d |-> pid.d, f |-> pid.f,
                    output |-> External(output_torque),
                    saturated |-> CheckSaturation(AtLimit(s.steer_max, output_torque), inp)]
    IN [s |-> [s EXCEPT !.pid = pid],
        ret |-> [raised |-> "", torque |-> External(output_torque), angle |-> 0,
                 pid_log |-> pid_log],
        ctl |-> [actual_curvature |-> actual_curvature, error |-> error, ff |-> ff,
                 freeze_integrator |-> freeze_integrator,
                 pid_output |-> PIDControl(pid),
                 friction_compensation |-> friction_compensation,
                 output_torque |-> output_torque]]

\* what a call that raised leaves to its caller
Raised(exception) ==
  [raised |-> exception, torque |-> 0, angle |-> 0, pid_log |-> NewPidLog]

----------------------------------------------------------------------------
(* The environment: vehicle inputs of a cycle and stored values *)

\* one cycle's arguments of update(): active, CS, params (roll), llk, desired_curvature,
\* and the value VM.calc_curvature returns for CS.steeringAngleDeg - params.angleOffsetDeg
In(active, vEgo, pressed, limited, vm, yaw, roll, desired) ==
  [active |-> active, vEgo |-> vEgo, steeringPressed |-> pressed,
   steeringRateLimited |-> limited, vm_curvature |-> vm, yaw_rate |-> yaw,
   roll |-> roll, desired_curvature |-> desired]

\* vehicle inputs of the tuning specifications: both Inactive causes, a frozen and
\* an accumulating Active cycle
CoarseInputs ==
  { In(TRUE, 2, FALSE, FALSE, 0, 0, 0, 3),
    In(FALSE, 100, FALSE, FALSE, 0, 0, 0, 3),
    In(TRUE, 100, TRUE, FALSE, 0, 0, 0, 3),
    In(TRUE, 100, FALSE, FALSE, 0, 0, 0, 3) }

\* vehicle inputs of the control-law specification
ControlInputs ==
  \* Inactive: below MIN_STEER_SPEED, not active, both
  { In(TRUE, 2, FALSE, FALSE, 0, 0, 0, 30), In(FALSE, 2, FALSE, FALSE, 0, 0, 0, 30),
    In(FALSE, 100, FALSE, FALSE, 0, 0, 0, 30) }
  \* the curvature blend: at MIN_STEER_SPEED, at 2.0, 3.5, 5.0 and 10.0 m/s, with
  \* the model-derived (1) and the yaw-rate-derived curvature apart
  \cup { In(TRUE, v, TRUE, FALSE, -1, 35, 0, 10) : v \in {3, 20, 35, 50, 100} }
  \* the integrator freeze: each cause alone, a small error
  \cup { In(TRUE, 100, TRUE, FALSE, 0, 0, 0, 1),
         In(TRUE, 100, FALSE, TRUE, 0, 0, 0, -1),
         In(TRUE, 35, FALSE, FALSE, 0, 0, 0, 1) }
  \* accumulating cycles: no error, the friction threshold, a banked road, and
  \* errors that saturate the controller either way
  \cup { In(TRUE, 100, FALSE, FALSE, 0, 0, 0, 0),
         In(TRUE, 50, FALSE, FALSE, 0, 0, 0, 3),
         In(TRUE, 100, FALSE, FALSE, 0, 0, 25, 3),
         In(TRUE, 100, FALSE, FALSE, 0, 0, 0, 30),
         In(TRUE, 100, FALSE, FALSE, 0, 0, 0, -30) }

\* what params.get_bool("CustomLateralTune") may return
StoredFlags == BOOLEAN

\* stored tuning values the store's contract allows: numbers, max-lat-accel not 0
ValidTunings ==
  { Tuning(Num(m), u, Num(f)) : m \in {10, 20}, u \in BOOLEAN, f \in {5} }

\* stored tuning values that break the contract: a key missing or malformed, and
\* a max-lat-accel of 0
FaultyTunings ==
  { Tuning(BadNum, FALSE, Num(5)), Tuning(Num(20), FALSE, BadNum),
    Tuning(Num(0), FALSE, Num(5)) }

\* the stored values t are the ones the instance's last application read
SameAsRead(s, t) ==
  /\ s.torque_attrs = 3
  /\ s.torque_max_lat_accel = t.TorqueMaxLatAccel.v
  /\ s.torque_use_steering_angle = t.TorqueUseSteeringAngle
  /\ s.torque_friction = StoredFriction(t.TorqueFriction.v)

----------------------------------------------------------------------------
(* Operations *)

Init ==
  /\ self = NewLatControlTorque
  /\ ret = Raised("")
  /\ cyc = [op |-> "init", inp |-> In(FALSE, 0, FALSE, FALSE, 0, 0, 0, 0),
            polled |-> FALSE, read |-> FALSE, tuning |-> NoTuning,
            replaced |-> FALSE, repeat |-> FALSE, i_pre |-> 0, ctl |-> NoControl]
  /\ cycles = 0
  /\ accum = 0
  /\ replaced_at = <<>>
  /\ twin = [s |-> NewLatControlTorque, accum |-> 0]

\* LatControlTorque.update(active, CS, CP, VM, params, last_actuators,
\* desired_curvature, desired_curvature_rate, llk), with the store answering
\* flag and tuning where update reads it.  desired_curvature_rate only feeds
\* desired_lateral_jerk, which nothing reads.  A cycle that would accumulate into
\* the integral beyond MaxAccum cycles is not explored.
Update(inp, flag, tuning) ==
  \E lt \in {Loader(Poll(self, flag), tuning)} :
  \E c \in {Control(lt.s, inp)} :
  LET polled == PollDue(self.custom_tune_timer + 1)
      a0 == IF lt.replaced THEN 0 ELSE accum
      accumulates == c.s.pid.i # lt.s.pid.i
      trace == [op |-> "update", inp |-> inp, polled |-> polled, read |-> lt.read,
                tuning |-> tuning, replaced |-> lt.replaced,
                repeat |-> lt.replaced /\ SameAsRead(self, tuning),
                i_pre |-> lt.s.pid.i, ctl |-> NoControl]
  IN IF lt.raised # ""
       THEN /\ self' = lt.s
            /\ ret' = Raised(lt.raised)
            /\ cyc' = trace
            /\ accum' = a0
            /\ UNCHANGED replaced_at
     ELSE /\ accumulates => a0 < MaxAccum
          /\ self' = c.s
          /\ ret' = c.ret
          /\ cyc' = [trace EXCEPT !.ctl = c.ctl]
          /\ accum' = IF accumulates THEN a0 + 1 ELSE a0
          /\ replaced_at' = IF lt.replaced THEN Append(replaced_at, cycles + 1)
                            ELSE replaced_at

\* one cycle: the store is read only where update() reads it
Cycle(Inputs, Flags, Tunings, cap) ==
  /\ cycles < cap
  /\ cycles' = cycles + 1
  /\ UNCHANGED twin
  /\ \E inp \in Inputs :
       \E flag \in (IF PollDue(self.custom_tune_timer + 1) THEN Flags
                    ELSE {self.custom_tune}) :
         \E tuning \in (IF Poll(self, flag).custom_tune
                           /\ ApplyDue(Poll(self, flag).mpc_frame + 1)
                        THEN Tunings ELSE {NoTuning}) :
           Update(inp, flag, tuning)

\* LatControlTorque.reset: super().reset() and self.pid.reset()
Reset ==
  /\ self' = [self EXCEPT !.pid = PIDReset(self.pid)]
  /\ cyc' = [cyc EXCEPT !.op = "reset"]
  /\ accum' = 0
  /\ UNCHANGED <<ret, cycles, replaced_at, twin>>

CycleTuning == Cycle(CoarseInputs, StoredFlags, ValidTunings, MaxCycles)

\* The instance against a store that keeps its contract, any flag at each poll.
Next == CycleTuning \/ Reset

Spec == Init /\ [][Next]_vars

\* The control law on the wide vehicle inputs, custom tuning switched on in the store.
CycleControl == Cycle(ControlInputs, {TRUE}, ValidTunings, MaxShortCycles)

NextCtl == CycleControl \/ Reset

SpecCtl == Init /\ [][NextCtl]_vars

\* The instance against a store that may break its contract.
CycleFault ==
  Cycle(CoarseInputs, StoredFlags, ValidTunings \cup FaultyTunings, MaxShortCycles)

NextFault == CycleFault \/ Reset

SpecFault == Init /\ [][NextFault]_vars

\* update() of the second instance, against the same answers of the store; a
\* cycle that would accumulate into its integral beyond MaxAccum cycles is not
\* explored
UpdateTwin(inp, flag, tuning) ==
  \E lt \in {Loader(Poll(twin.s, flag), tuning)} :
  \E c \in {Control(lt.s, inp)} :
  LET a0 == IF lt.replaced THEN 0 ELSE twin.accum
      accumulates == c.s.pid.i # lt.s.pid.i
  IN IF lt.raised # "" THEN twin' = [s |-> lt.s, accum |-> a0]
     ELSE /\ accumulates => a0 < MaxAccum
          /\ twin' = [s |-> c.s, accum |-> IF accumulates THEN a0 + 1 ELSE a0]

\* the vehicle inputs two instances get in one cycle: any two different ones
PairInputs == { pair \in CoarseInputs \X CoarseInputs : pair[1] # pair[2] }

\* two instances stepped in lockstep: one cycle of each, on different vehicle
\* inputs, the store answering both alike
CyclePair ==
  /\ cycles < MaxShortCycles
  /\ cycles' = cycles + 1
  /\ \E pair \in PairInputs :
       \E flag \in (IF PollDue(self.custom_tune_timer + 1) THEN StoredFlags
                    ELSE {self.custom_tune}) :
         \E tuning \in (IF Poll(self, flag).custom_tune
                           /\ ApplyDue(Poll(self, flag).mpc_frame + 1)
                        THEN ValidTunings ELSE {NoTuning}) :
           /\ Update(pair[1], flag, tuning)
           /\ UpdateTwin(pair[2], flag, tuning)

NextTwin == CyclePair \/ Reset

SpecTwin == Init /\ [][NextTwin]_vars

----------------------------------------------------------------------------
(* Properties *)

\* the last call of update() returned (it did not raise)
Returned == cyc.op # "init" /\ ret.raised = ""

\* the internally computed torque of the last call
OutputTorque == cyc.ctl.output_torque

\* C1: a call with speed below MIN_STEER_SPEED or with active false returns
\* torque 0.0 and a record whose active flag is false, whatever the instance's
\* counters, tuning and integral and whatever the other inputs.
C1_InactiveZeroTorque ==
  Returned /\ (cyc.inp.vEgo < MIN_STEER_SPEED \/ ~cyc.inp.active)
    => ret.torque = 0 /\ ~ret.pid_log.active

\* an Inactive call on an instance that holds a non-zero integral, and one in the
\* cycle that applies live tuning
C1_Witness ==
  /\ Returned /\ cyc.op = "update"
  /\ cyc.inp.vEgo < MIN_STEER_SPEED /\ cyc.inp.active
  /\ cyc.replaced
  /\ ret.torque = 0

\* C2: the torque command every call returns lies in [-1, 1].
C2_TorqueWithinUnit ==
  Returned => -One <= ret.torque /\ ret.torque <= One

\* the tuning the instance holds: the flags and coefficient update() uses and the
\* controller's gains
Config(s) == <<s.use_steering_angle, s.friction, s.pid.k_p, s.pid.k_i, s.pid.k_f>>

\* the tuning the stored values t stand for
ConfigOf(t) ==
  <<t.TorqueUseSteeringAngle, (t.TorqueFriction.v * One) \div 100,
    (2 * GainOne * 10) \div t.TorqueMaxLatAccel.v,
    (GainOne * 10) \div t.TorqueMaxLatAccel.v,
    (5 * GainOne) \div t.TorqueMaxLatAccel.v>>

\* stored values the loader can use: both numbers present, max-lat-accel not 0
Usable(t) ==
  t.TorqueMaxLatAccel.ok /\ t.TorqueFriction.ok /\ t.TorqueMaxLatAccel.v # 0

\* this step is a call of update()
UpdateStep == cyc'.op = "update" /\ cycles' = cycles + 1

\* C3: a cycle in which live_tune reaches its apply point either replaces all of
\* the tuning from the three stored values or, when a stored value is missing,
\* malformed or unusable, leaves the tuning as it was before the cycle.
C3_AllOrNothing ==
  [][UpdateStep /\ cyc'.read =>
       IF Usable(cyc'.tuning) THEN Config(self') = ConfigOf(cyc'.tuning)
       ELSE Config(self') = Config(self)]_vars

\* the freeze condition of a cycle's inputs, as the specification words it
FreezeHolds(inp) == inp.steeringRateLimited \/ inp.steeringPressed \/ inp.vEgo < 50

\* C4 as claimed: in every cycle whose freeze condition holds, the integral
\* accumulator after the cycle equals its value before it (hence over any N such
\* cycles), from any reachable state.
C4_FreezeHoldsIntegral ==
  [][UpdateStep /\ FreezeHolds(cyc'.inp) => self'.pid.i = self.pid.i]_vars

\* C4 as amended: in every cycle whose freeze condition holds and in which
\* live_tune does not replace the controller, the integral accumulator after the
\* cycle equals its value before it; a cycle that replaces the controller under
\* the freeze leaves the fresh controller's zero integral.
C4_FreezeHoldsIntegralUnlessReplaced ==
  [][UpdateStep /\ FreezeHolds(cyc'.inp) =>
       self'.pid.i = (IF cyc'.replaced THEN 0 ELSE self.pid.i)]_vars

\* an Active cycle under the freeze, with an error, on a non-zero integral
C4_Witness ==
  /\ Returned /\ cyc.op = "update"
  /\ ret.pid_log.active /\ FreezeHolds(cyc.inp) /\ ret.pid_log.error # 0
  /\ ~cyc.replaced
  /\ self.pid.i # 0

\* C5: the custom-tuning flag is polled on cycle 100 after construction and then
\* every 100 cycles: cycle n polls exactly when n is a multiple of 100.
C5_PollEvery100 ==
  cyc.op = "update" => (cyc.polled <=> cycles % 100 = 0)

\* C6: while custom tuning is enabled the apply counter counts every cycle, and
\* exactly the cycle in which it reaches 300 reads the three stored values, applies
\* them and resets the counter to 0; every other cycle reads no tuning value and
\* leaves the tuning unchanged.
C6_ApplyEvery300 ==
  [][UpdateStep =>
       IF self'.custom_tune /\ self.mpc_frame + 1 = 300
         THEN /\ cyc'.read /\ cyc'.replaced
              /\ Config(self') = ConfigOf(cyc'.tuning)
              /\ self'.mpc_frame = 0
       ELSE /\ ~cyc'.read /\ ~cyc'.replaced
            /\ Config(self') = Config(self)
            /\ self'.mpc_frame = (IF self'.custom_tune THEN self.mpc_frame + 1
                                  ELSE self.mpc_frame)]_vars

\* a cycle that applied the stored values, changing the tuning
C6_Witness ==
  /\ cyc.op = "update" /\ cyc.replaced /\ self.mpc_frame = 0
  /\ Config(self) # Config(NewLatControlTorque)

\* the gains of the controller
Gains(s) == <<s.pid.k_p, s.pid.k_i, s.pid.k_f>>

\* 2.0 / m, 1.0 / m, 0.5 / m for the stored max-lat-accel m
GainsFor(m) == <<(2 * GainOne * 10) \div m, (GainOne * 10) \div m, (5 * GainOne) \div m>>

\* C7: once live tuning was applied, the gains are 2.0/m, 1.0/m, 0.5/m for the m
\* of the most recent application and the limits are -1.0 and +1.0; a step that
\* changes a gain is an application, which sets all three from its one m.
C7_GainsConsistent ==
  /\ [](self.torque_attrs = 3 =>
          /\ Gains(self) = GainsFor(self.torque_max_lat_accel)
          /\ self.pid.pos_limit = One /\ self.pid.neg_limit = -One)
  /\ [][Gains(self') # Gains(self) =>
          /\ cyc'.replaced
          /\ self'.torque_max_lat_accel = cyc'.tuning.TorqueMaxLatAccel.v
          /\ Gains(self') = GainsFor(cyc'.tuning.TorqueMaxLatAccel.v)]_vars

\* after an application that changed the max-lat-accel, some cycles on
C7_Witness ==
  /\ self.torque_attrs = 3 /\ ~cyc.replaced
  /\ Gains(self) # Gains(NewLatControlTorque)
  /\ self.torque_max_lat_accel = 10

\* C8: an application that reads the values the previous application read leaves
\* gains, friction coefficient and use-steering-angle flag as they were; every
\* application hands the control law a controller with zero integral, and a cycle
\* without application hands it the integral the cycle began with.
C8_Idempotent ==
  [][UpdateStep =>
       /\ (cyc'.replaced /\ SameAsRead(self, cyc'.tuning) => Config(self') = Config(self))
       /\ cyc'.i_pre = (IF cyc'.replaced THEN 0 ELSE self.pid.i)]_vars

\* the second of two applications that read the same values
C8_Witness ==
  /\ cyc.op = "update" /\ cyc.replaced /\ cyc.repeat
  /\ cyc.i_pre = 0

\* C9 as claimed: in an Active cycle the saturation flag is true iff
\* |output| >= max_torque - 1e-3.
C9_SaturatedIffAtLeast ==
  Returned /\ ret.pid_log.active =>
    (ret.pid_log.saturated <=> Abs(OutputTorque) >= STEER_MAX - SAT_TOLERANCE)

\* C9 as amended: in an Active cycle the saturation flag is true iff
\* |output| > max_torque - 1e-3, that is max_torque - |output| < 1e-3.
C9_SaturatedIffAbove ==
  Returned /\ ret.pid_log.active =>
    (ret.pid_log.saturated <=> Abs(OutputTorque) > STEER_MAX - SAT_TOLERANCE)

\* an Active cycle saturated at the negative limit
C9_Witness ==
  /\ Returned /\ ret.pid_log.active /\ ret.pid_log.saturated
  /\ OutputTorque < 0

\* C10: in an Active cycle the bias added to the controller's output is c * e / 0.2
\* for an error e in [-0.2, 0.2], +c for e >= 0.2 and -c for e <= -0.2, with c the
\* friction coefficient in force after the cycle's live-tune application.
C10_FrictionBias ==
  Returned /\ ret.pid_log.active =>
    LET e == ret.pid_log.error
        c == self.friction
        bias == IF e >= FRICTION_THRESHOLD THEN c
                ELSE IF e <= -FRICTION_THRESHOLD THEN -c
                ELSE (c * e) \div FRICTION_THRESHOLD
    IN /\ cyc.ctl.friction_compensation = bias
       /\ OutputTorque = cyc.ctl.pid_output + bias

\* an Active cycle that applied a new friction coefficient, with an error inside
\* the threshold
C10_Witness ==
  /\ Returned /\ ret.pid_log.active /\ cyc.op = "update" /\ cyc.replaced
  /\ self.friction # NewLatControlTorque.friction
  /\ ret.pid_log.error > 0 /\ ret.pid_log.error < FRICTION_THRESHOLD
  /\ cyc.ctl.friction_compensation > 0

\* x lies between a and b, ends included
Between(x, a, b) == (a <= x /\ x <= b) \/ (b <= x /\ x <= a)

\* model + (speed - 2.0) / 3.0 * (yaw_rate_curv - model)
Blend(model, yaw_rate_curv, vEgo) ==
  model + ((vEgo - 20) * (yaw_rate_curv - model)) \div 30

\* C11: in an Active cycle the actual curvature is the negated model-derived
\* curvature when the use-steering-angle flag is true; otherwise it is the
\* model-derived curvature up to 2.0 m/s, the yaw-rate/speed curvature from 5.0 m/s
\* and the linear blend between, which lies between the two estimates and moves
\* from the first to the second as speed rises.
C11_CurvatureBlend ==
  Returned /\ ret.pid_log.active =>
    LET v == cyc.inp.vEgo
        model == -cyc.inp.vm_curvature
        yaw_rate_curv == (cyc.inp.yaw_rate * 10 * CurvPerUnit) \div (1000 * v)
        actual == cyc.ctl.actual_curvature
    IN IF self.use_steering_angle THEN actual = model
       ELSE IF v <= 20 THEN actual = model
       ELSE IF v >= 50 THEN actual = yaw_rate_curv
       ELSE /\ actual = Blend(model, yaw_rate_curv, v)
            /\ Between(actual, model, yaw_rate_curv)
            /\ \A w \in 20..50 :
                 IF w <= v THEN Between(Blend(model, yaw_rate_curv, w), model, actual)
                 ELSE Between(Blend(model, yaw_rate_curv, w), actual, yaw_rate_curv)

\* an Active cycle at 3.5 m/s with the flag false and the two estimates apart: the
\* curvature lies strictly between them
C11_Witness ==
  /\ Returned /\ ret.pid_log.active /\ ~self.use_steering_angle
  /\ cyc.inp.vEgo = 35
  /\ cyc.ctl.actual_curvature > -cyc.inp.vm_curvature
  /\ cyc.ctl.actual_curvature * 35 < cyc.inp.yaw_rate * 40

\* the inputs of the last call pass the gate: speed >= MIN_STEER_SPEED and active
ActiveInputs == cyc.inp.vEgo >= MIN_STEER_SPEED /\ cyc.inp.active

\* C12: every call returns 0.0 as its second element and, as its torque, the
\* negation of the internally computed torque: of the controller's output plus the
\* friction bias in an Active cycle, of 0.0 in an Inactive one; in an Active cycle
\* the record's output field equals the returned torque.
C12_OutputConvention ==
  Returned =>
    /\ ret.angle = 0
    /\ ret.torque = -(IF ActiveInputs
                        THEN cyc.ctl.pid_output + cyc.ctl.friction_compensation
                      ELSE 0)
    /\ (ActiveInputs => ret.pid_log.output = ret.torque)

\* an Active cycle with a positive internal torque, bias included
C12_Witness ==
  /\ Returned /\ ActiveInputs
  /\ cyc.ctl.pid_output > 0 /\ cyc.ctl.friction_compensation > 0
  /\ ret.torque < 0 /\ ret.pid_log.output < 0

\* the controller's integral and last terms
Terms(pid) == <<pid.p, pid.i, pid.d, pid.f>>

\* C13 as claimed: a cycle with speed < MIN_STEER_SPEED or active false leaves the
\* controller's integral and last p/i/d/f terms as they were before the cycle, and
\* its record carries active = false with every other field at its default.
C13_InactiveBypass ==
  [][UpdateStep /\ (cyc'.inp.vEgo < MIN_STEER_SPEED \/ ~cyc'.inp.active) =>
       /\ Terms(self'.pid) = Terms(self.pid)
       /\ ret'.pid_log = NewPidLog]_vars

\* C13 as amended: a cycle with speed < MIN_STEER_SPEED or active false performs no
\* controller update: the integral and last terms after it are those before it,
\* or all zero when live_tune replaced the controller in the cycle; its record
\* carries active = false with every other field at its default.
C13_InactiveBypassUnlessReplaced ==
  [][UpdateStep /\ (cyc'.inp.vEgo < MIN_STEER_SPEED \/ ~cyc'.inp.active) =>
       /\ Terms(self'.pid) = (IF cyc'.replaced THEN <<0, 0, 0, 0>> ELSE Terms(self.pid))
       /\ ret'.pid_log = NewPidLog]_vars

\* an Inactive cycle on a controller that holds an integral and last terms
C13_Witness ==
  /\ Returned /\ cyc.op = "update" /\ ~ActiveInputs /\ ~cyc.replaced
  /\ self.pid.i # 0 /\ self.pid.p # 0 /\ self.pid.f # 0
  /\ ret.pid_log = NewPidLog

\* C14: the first cycle in which live_tune replaces the controller is no earlier
\* than cycle 300, and any two cycles that replace it are at least 300 cycles
\* apart, whatever the store answers at the polls.
C14_ReplacementSpacing ==
  \A k \in 1..Len(replaced_at) :
    replaced_at[k] - (IF k = 1 THEN 0 ELSE replaced_at[k - 1]) >= 300

\* the cycle of a second replacement
C14_Witness ==
  /\ cyc.op = "update" /\ cyc.replaced
  /\ Len(replaced_at) = 2 /\ replaced_at[2] = cycles

\* C15: in an Active cycle the freeze_integrator passed to the controller is true
\* exactly when the steering is rate limited or pressed or speed < 5.0, whatever the
\* error, the tuning, the counters and the cycles before; under it the controller
\* logs the integral it was handed.
C15_FreezeIff ==
  Returned /\ ActiveInputs =>
    /\ cyc.ctl.freeze_integrator <=> FreezeHolds(cyc.inp)
    /\ cyc.ctl.freeze_integrator => ret.pid_log.i = cyc.i_pre

\* an Active cycle at 5.0 m/s exactly, steering free: not frozen, the integral moved
C15_Witness ==
  /\ Returned /\ ActiveInputs /\ cyc.inp.vEgo = 50
  /\ ~cyc.inp.steeringPressed /\ ~cyc.inp.steeringRateLimited
  /\ ~cyc.ctl.freeze_integrator
  /\ ret.pid_log.i # cyc.i_pre

\* C16: the record's active flag of every call is true exactly when that call's
\* speed is >= MIN_STEER_SPEED and its active argument is true, whatever the
\* instance's state before the call and whether or not the call applied live tuning.
C16_NoHysteresis ==
  Returned => (ret.pid_log.active <=> ActiveInputs)

\* an Active cycle at MIN_STEER_SPEED exactly that applied live tuning
C16_Witness ==
  /\ Returned /\ cyc.op = "update" /\ cyc.replaced
  /\ cyc.inp.vEgo = MIN_STEER_SPEED /\ cyc.inp.active
  /\ ret.pid_log.active

\* C17: between two calls of update(), with store reads that succeed, the
\* toggle-poll counter is in 0..100 and the apply counter in 0..299.
C17_CounterBounds ==
  /\ self.custom_tune_timer \in 0..100
  /\ self.mpc_frame \in 0..299

\* the apply counter at its upper end a second time, after a replacement returned
\* it to 0 and several polls returned the toggle-poll counter to 0
C17_Witness ==
  /\ self.mpc_frame = 299 /\ self.custom_tune
  /\ Len(replaced_at) = 1
  /\ self.custom_tune_timer > 0 /\ cycles > 6 * 100

\* C18: a cycle after whose poll step the cached custom-tuning flag is false reads
\* no tuning value and leaves the apply counter, the friction coefficient, the
\* use-steering-angle flag and the gains unchanged; the cached flag changes in poll
\* cycles only; the cycle that re-enables tuning counts on from the held counter.
C18_DisabledFrame ==
  [][/\ UpdateStep /\ ~self'.custom_tune =>
          /\ ~cyc'.read
          /\ self'.mpc_frame = self.mpc_frame
          /\ Config(self') = Config(self)
     /\ self'.custom_tune # self.custom_tune => UpdateStep /\ cyc'.polled
     /\ UpdateStep /\ ~self.custom_tune /\ self'.custom_tune =>
          self'.mpc_frame = (self.mpc_frame + 1) % 300]_vars

\* the poll of cycle 303 re-enables tuning that was on for cycles 101..201 and off
\* for cycles 202..302: the counter held at 101 counts on to 102
C18_Witness ==
  /\ cyc.op = "update" /\ cyc.polled /\ self.custom_tune
  /\ cycles = 3 * 101 /\ self.mpc_frame = 102

\* the tuning side of an instance: both counters, the cached flag, the friction
\* coefficient, the use-steering-angle flag and the gains
TuningState(s) ==
  <<s.custom_tune_timer, s.custom_tune, s.mpc_frame, s.friction,
    s.use_steering_angle, s.pid.k_p, s.pid.k_i, s.pid.k_f>>

\* C19: two instances constructed alike and stepped in lockstep against the same
\* store, on different vehicle inputs in every cycle, agree after every cycle on
\* counters, cached flag, friction coefficient, use-steering-angle flag and gains.
C19_TuningIndependentOfInputs ==
  TuningState(self) = TuningState(twin.s)

\* a cycle that applied new gains to both instances, Inactive for the first and
\* Active for the second
C19_Witness ==
  /\ cyc.op = "update" /\ cyc.replaced /\ ~ActiveInputs
  /\ twin.s.pid.p # 0 /\ self.pid.p = 0
  /\ Gains(self) # Gains(NewLatControlTorque)
  /\ TuningState(self) = TuningState(twin.s)

\* this step is a call of reset()
ResetStep == cyc'.op = "reset" /\ cycles' = cycles

\* C20: reset() in any reachable state zeroes the controller's integral and last
\* terms and leaves its gains and limits, the friction coefficient, the
\* use-steering-angle flag, the cached custom-tuning flag and both counters as
\* they were.
C20_ResetFrame ==
  [][ResetStep =>
       /\ Terms(self'.pid) = <<0, 0, 0, 0>>
       /\ Gains(self') = Gains(self)
       /\ self'.pid.pos_limit = self.pid.pos_limit
       /\ self'.pid.neg_limit = self.pid.neg_limit
       /\ self'.friction = self.friction
       /\ self'.use_steering_angle = self.use_steering_angle
       /\ self'.custom_tune = self.custom_tune
       /\ self'.custom_tune_timer = self.custom_tune_timer
       /\ self'.mpc_frame = self.mpc_frame]_vars

\* a reset after live tuning was applied, between two applications, of a controller
\* that the last call left with a non-zero integral
C20_Witness ==
  /\ cyc.op = "reset"
  /\ ret.pid_log.active /\ ret.pid_log.i # 0 /\ self.pid.i = 0
  /\ Gains(self) # Gains(NewLatControlTorque)
  /\ self.custom_tune /\ self.mpc_frame > 0

====
